---- MODULE Spec2Model ----
(***************************************************************************)
(* A model of tissue-rs: the CheckinBuilder of src/src/checkin.rs and the  *)
(* IncomingEndpoint / parse_response of src/src/tissue.rs.                 *)
(*                                                                         *)
(* A Rust String is a sequence of characters; a character is named by a    *)
(* one-element label ("a", " ") or by its code point ("U+3042").           *)
(* Option<T> is a sequence of length at most one: <<>> is None and <<x>>   *)
(* is Some(x).                                                             *)
(***************************************************************************)
EXTENDS Integers, Sequences, FiniteSets, TLC

VARIABLES
    builder,    \* Option<CheckinBuilder>: None once build() has consumed it
    call,       \* the builder method that returned last, its input and result
    checkin,    \* Option<Checkin>: the value build() returned
    endpoint,   \* the IncomingEndpoint: its domain and id
    pc,         \* where send_checkin stands: "idle", "awaiting" or "done"
    calls,      \* how many times send_checkin was called
    requests,   \* the requests the TissueRequester was asked for, in order
    reply,      \* Option: what the requester's post resolved to
    result      \* Option: what send_checkin returned

vars == <<builder, call, checkin, endpoint, pc, calls, requests, reply, result>>
endpointVars == <<endpoint, pc, calls, requests, reply, result>>

(***************************************************************************)
(* Bounds of the model.                                                    *)
(***************************************************************************)
\* note/link inputs are up to MaxOver characters longer than a limit
MaxOver == 1
\* a tag collection holds at most MaxTags entries ...
MaxTags == 2
\* ... of at most MaxTagChars characters in total
MaxTagChars == 4
\* an error.violations array holds at most MaxViolations elements
MaxViolations == 2
\* send_checkin is called at most MaxCalls times on one endpoint
MaxCalls == 2

(***************************************************************************)
(* Strings.                                                                *)
(***************************************************************************)
None == <<>>
Some(x) == <<x>>

\* char::is_whitespace, on the characters of the model
IsWhitespace(c) == c \in {" ", "U+3000"}

\* char::len_utf8
LenUtf8(c) == IF c \in {"U+3000", "U+3042"} THEN 3 ELSE 1

\* the characters of s that take w bytes
OfWidth(s, w) == Cardinality({i \in 1..Len(s) : LenUtf8(s[i]) = w})

\* str::len: the length in bytes
ByteLen(s) == OfWidth(s, 1) + 2 * OfWidth(s, 2) + 3 * OfWidth(s, 3) + 4 * OfWidth(s, 4)

\* text.chars().count()
CharsCount(s) == Len(s)

RECURSIVE TrimStart(_)
TrimStart(s) ==
    IF s # <<>> /\ IsWhitespace(Head(s)) THEN TrimStart(Tail(s)) ELSE s

RECURSIVE TrimEnd(_)
TrimEnd(s) ==
    IF s # <<>> /\ IsWhitespace(s[Len(s)])
    THEN TrimEnd(SubSeq(s, 1, Len(s) - 1))
    ELSE s

\* a tag taken as it was given
NoTrim(s) == s

\* str::trim
Trim(s) == TrimEnd(TrimStart(s))

(***************************************************************************)
(* Timestamps: a DateTime<Tz> is an instant and the offset of its zone.    *)
(***************************************************************************)
DateTimes == {[instant |-> "2020-12-31T15:00:00", offset |-> "+00:00"],
              [instant |-> "2020-12-31T15:00:00", offset |-> "+09:00"]}

\* DateTime::to_rfc3339_opts(SecondsFormat::Secs, true)
ToRfc3339(dt) ==
    CASE dt.offset = "+00:00" -> "2020-12-31T15:00:00Z"
      [] dt.offset = "+09:00" -> "2021-01-01T00:00:00+09:00"

(***************************************************************************)
(* CheckinBuilder.                                                         *)
(***************************************************************************)
LinkLimit == 2000

\* the limit the comment on note() names
NoteLimitAsDocumented == LinkLimit

NoteLimit == 500

\* CheckinBuilder::with_datetime
WithDatetime(checked_in_at) ==
    [checked_in_at |-> checked_in_at, note |-> None, link |-> None,
     tags |-> <<>>, is_private |-> None, is_too_sensitive |-> None]

\* the characters of the inputs
TagChars == {"a", " "}

\* a text of n characters, the first of one byte and the others of three
Text(n) == [i \in 1..n |-> IF i = 1 THEN "a" ELSE "U+3042"]

\* the empty text, and the lengths from each limit to MaxOver above it
TextLens == {0} \cup UNION {L..(L + MaxOver) : L \in {NoteLimit, LinkLimit}}
Texts == {Text(n) : n \in TextLens}

\* the strings of at most m characters
TagStrings(m) == UNION {[1..n -> TagChars] : n \in 0..m}

\* the collections of at most n strings that hold at most m characters
RECURSIVE TagCollections(_, _)
TagCollections(n, m) ==
    IF n = 0
    THEN {<<>>}
    ELSE {<<>>} \cup UNION {{<<t>> \o rest : rest \in TagCollections(n - 1, m - Len(t))} :
                               t \in TagStrings(m)}

TagInputs == TagCollections(MaxTags, MaxTagChars)

Idle == [op |-> "none", arg |-> <<>>, ret |-> "none"]

\* the caller owns the builder and is not inside a call on it
Callable == builder # None /\ call = Idle

\* CheckinBuilder::note
Note(text) ==
    /\ Callable
    /\ IF CharsCount(text) <= NoteLimit
       THEN /\ builder' = Some([builder[1] EXCEPT !.note = Some(text)])
            /\ call' = [op |-> "note", arg |-> text, ret |-> "Ok"]
       ELSE /\ builder' = builder
            /\ call' = [op |-> "note", arg |-> text, ret |-> "Err(TooLong)"]
    /\ UNCHANGED <<checkin, endpointVars>>

\* CheckinBuilder::link
Link(link) ==
    /\ Callable
    /\ IF CharsCount(link) <= LinkLimit
       THEN /\ builder' = Some([builder[1] EXCEPT !.link = Some(link)])
            /\ call' = [op |-> "link", arg |-> link, ret |-> "Ok"]
       ELSE /\ builder' = builder
            /\ call' = [op |-> "link", arg |-> link, ret |-> "Err(TooLong)"]
    /\ UNCHANGED <<checkin, endpointVars>>

\* the loop of CheckinBuilder::tags over the rest of its input
RECURSIVE ValidateTags(_, _)
ValidateTags(tags, validated) ==
    IF tags = <<>>
    THEN [ret |-> "Ok", validated |-> validated]
    ELSE LET tag_str == Trim(Head(tags))
         IN  IF tag_str = <<>>
             THEN ValidateTags(Tail(tags), validated)
             ELSE IF \E i \in 1..Len(tag_str) : IsWhitespace(tag_str[i])
                  THEN [ret |-> "Err(HasWhitespaces)", validated |-> validated]
                  ELSE ValidateTags(Tail(tags), Append(validated, tag_str))

\* CheckinBuilder::tags: `validated` is a local that is dropped on return
Tags(tags) ==
    /\ Callable
    /\ LET r == ValidateTags(tags, <<>>)
       IN  call' = [op |-> "tags", arg |-> tags, ret |-> r.ret]
    /\ UNCHANGED <<builder, checkin, endpointVars>>

\* CheckinBuilder::is_private
IsPrivate(is_private) ==
    /\ Callable
    /\ builder' = Some([builder[1] EXCEPT !.is_private = Some(is_private)])
    /\ call' = [op |-> "is_private", arg |-> is_private, ret |-> "Ok"]
    /\ UNCHANGED <<checkin, endpointVars>>

\* CheckinBuilder::is_too_sensitive
IsTooSensitive(is_too_sensitive) ==
    /\ Callable
    /\ builder' =
           Some([builder[1] EXCEPT !.is_too_sensitive = Some(is_too_sensitive)])
    /\ call' = [op |-> "is_too_sensitive", arg |-> is_too_sensitive, ret |-> "Ok"]
    /\ UNCHANGED <<checkin, endpointVars>>

\* CheckinBuilder::build: the builder is moved into the Checkin
Build ==
    /\ Callable
    /\ checkin' = Some([checked_in_at |-> ToRfc3339(builder[1].checked_in_at),
                        note |-> builder[1].note,
                        link |-> builder[1].link,
                        tags |-> builder[1].tags,
                        is_private |-> builder[1].is_private,
                        is_too_sensitive |-> builder[1].is_too_sensitive])
    /\ builder' = None
    /\ call' = [op |-> "build", arg |-> <<>>, ret |-> "Ok"]
    /\ UNCHANGED endpointVars

\* the caller takes the value the call returned (examples/checkin.rs)
Return ==
    /\ call # Idle
    /\ call' = Idle
    /\ UNCHANGED <<builder, checkin, endpointVars>>

EndpointIdle ==
    /\ pc = "idle"
    /\ calls = 0
    /\ requests = <<>>
    /\ reply = None
    /\ result = None

Init ==
    /\ builder \in {Some(WithDatetime(dt)) : dt \in DateTimes}
    /\ call = Idle
    /\ checkin = None
    /\ endpoint = None
    /\ EndpointIdle

\* a method of the builder is called on any input, or its result is taken
Next ==
    \/ Callable /\ \E text \in Texts : Note(text)
    \/ Callable /\ \E link \in Texts : Link(link)
    \/ Callable /\ \E tags \in TagInputs : Tags(tags)
    \/ Callable /\ \E is_private \in BOOLEAN : IsPrivate(is_private)
    \/ Callable /\ \E is_too_sensitive \in BOOLEAN :
                       IsTooSensitive(is_too_sensitive)
    \/ Build
    \/ Return

Spec == Init /\ [][Next]_vars

(***************************************************************************)
(* serde_json::Value.  A JSON string or key is a TLA+ string; an object is *)
(* a function from its keys to values.                                     *)
(***************************************************************************)
Null == [t |-> "null"]
Bool(b) == [t |-> "bool", v |-> b]
\* an integer number
Num(n) == [t |-> "num", v |-> n]
\* a number with a fraction, named by its text
Float(x) == [t |-> "float", v |-> x]
Str(s) == [t |-> "str", v |-> s]
Arr(a) == [t |-> "arr", v |-> a]
Obj(o) == [t |-> "obj", v |-> o]

\* the member k of an object, when opt holds a value for it
Field(k, opt) == IF opt = None THEN <<>> ELSE k :> opt[1]

\* Index<&str> for Value: Null for a missing key or a value that is no object
Index(value, key) ==
    IF value.t = "obj" /\ key \in DOMAIN value.v THEN value.v[key] ELSE Null

\* Value::as_u64
AsU64(value) == IF value.t = "num" /\ value.v >= 0 THEN Some(value.v) ELSE None

\* Value::as_str
AsStr(value) == IF value.t = "str" THEN Some(value.v) ELSE None

\* Value::is_array
IsArray(value) == value.t = "arr"

\* what a decoder returns
Decoded(x) == [ok |-> TRUE, value |-> x]
DecodeError == [ok |-> FALSE]

\* a value rendered as a string
Rendered(value) ==
    CASE value.t = "str" -> value.v
      [] value.t = "num" -> ToString(value.v)
      [] value.t = "null" -> "null"
      [] OTHER -> "?"

\* a decoder of arrays that renders every element as a string
FromValueVecRendered(value) ==
    IF value.t = "arr"
    THEN Decoded([i \in 1..Len(value.v) |-> Rendered(value.v[i])])
    ELSE DecodeError

\* from_value::<Vec<String>>
FromValueVecString(value) ==
    IF value.t = "arr" /\ \A i \in 1..Len(value.v) : value.v[i].t = "str"
    THEN Decoded([i \in 1..Len(value.v) |-> value.v[i].v])
    ELSE DecodeError

\* the timestamps of the model, each with the instant it denotes
Rfc3339Instant ==
    [s \in {"2021-01-01T00:00:00+09:00", "2020-12-31T15:00:00Z"}
        |-> "2020-12-31T15:00:00"]

\* the fields of ReceivedCheckin, in the order of their declaration
ReceivedCheckinFields ==
    <<"id", "checked_in_at", "note", "link", "tags", "source", "is_private",
      "is_too_sensitive">>

\* Deserialize for the type of field `name` of ReceivedCheckin: None on failure
DecodeField(name, value) ==
    CASE name = "id" -> AsU64(value)
      [] name = "checked_in_at" ->
            IF value.t = "str" /\ value.v \in DOMAIN Rfc3339Instant
            THEN Some([instant |-> Rfc3339Instant[value.v], offset |-> "local"])
            ELSE None
      [] name \in {"note", "link", "source"} -> AsStr(value)
      [] name = "tags" ->
            IF FromValueVecString(value).ok
            THEN Some(FromValueVecString(value).value)
            ELSE None
      [] name \in {"is_private", "is_too_sensitive"} ->
            IF value.t = "bool" THEN Some(value.v) ELSE None

FieldNames == {ReceivedCheckinFields[i] : i \in DOMAIN ReceivedCheckinFields}

\* a decoder that fills in `source` when the object lacks it
FromValueReceivedCheckinDefaulting(value) ==
    IF /\ value.t = "obj"
       /\ \A name \in FieldNames :
              \/ name = "source" /\ name \notin DOMAIN value.v
              \/ /\ name \in DOMAIN value.v
                 /\ DecodeField(name, value.v[name]) # None
    THEN Decoded([name \in FieldNames |->
                     IF name \in DOMAIN value.v
                     THEN DecodeField(name, value.v[name])[1]
                     ELSE ""])
    ELSE DecodeError

\* from_value::<ReceivedCheckin> (derived Deserialize) of an object or a scalar
FromValueReceivedCheckin(value) ==
    IF /\ value.t = "obj"
       /\ \A name \in FieldNames :
              /\ name \in DOMAIN value.v
              /\ DecodeField(name, value.v[name]) # None
    THEN Decoded([name \in FieldNames |-> DecodeField(name, value.v[name])[1]])
    ELSE DecodeError

(***************************************************************************)
(* Results.                                                                *)
(***************************************************************************)
Ok(x) == [kind |-> "Ok", value |-> x]
Err(e) == [kind |-> "Err", error |-> e]
\* the call did not return: it panicked with this message
Panic(m) == [kind |-> "Panic", message |-> m]

Success(received) == [variant |-> "Success", checkin |-> received]
ValidationError(violations) ==
    [variant |-> "ValidationError", violations |-> violations]
OtherError(message) == [variant |-> "OtherError", message |-> message]

\* the boxed serde_json::Error of a failed from_value
SerdeError == [type |-> "serde_json::Error"]
\* the boxed String of format!("Unknown status code: {}, response: {}", ..)
UnknownStatus(status, value) ==
    [type |-> "String",
     text |-> <<"Unknown status code: ", status, ", response: ", value>>]

\* an arm for every status from 400 to 499
IsClientError(status_code) == status_code \in 400..499

\* the arm `404 | 422` of parse_response
IsRejection(status_code) == status_code \in {404, 422}

\* the message, with a text standing in for a missing one
MessageOrUnknown(error_object) ==
    LET message == AsStr(Index(error_object, "message"))
    IN  IF message = None THEN "unknown error" ELSE message[1]

\* error_object["message"].as_str().unwrap_or("")
MessageOf(error_object) ==
    LET message == AsStr(Index(error_object, "message"))
    IN  IF message = None THEN "" ELSE message[1]

\* parse_response
ParseResponse(value) ==
    LET status == AsU64(Index(value, "status"))
    IN  IF status = None
        THEN Panic("Status code should exist")
        ELSE LET status_code == status[1]
             IN  IF status_code = 200
                 THEN LET received_checkin ==
                              FromValueReceivedCheckin(Index(value, "checkin"))
                      IN  IF received_checkin.ok
                          THEN Ok(Success(received_checkin.value))
                          ELSE Err(SerdeError)
                 ELSE IF IsRejection(status_code)
                 THEN LET error_object == Index(value, "error")
                      IN  IF IsArray(Index(error_object, "violations"))
                          THEN LET violations ==
                                       FromValueVecString(
                                           Index(error_object, "violations"))
                               IN  IF violations.ok
                                   THEN Ok(ValidationError(violations.value))
                                   ELSE Err(SerdeError)
                          ELSE Ok(OtherError(MessageOf(error_object)))
                 ELSE Err(UnknownStatus(status_code, value))

(***************************************************************************)
(* IncomingEndpoint.                                                       *)
(***************************************************************************)
\* IncomingEndpoint::with_domain
EndpointWithDomain(domain, id) == [domain |-> domain, id |-> id]

\* IncomingEndpoint::new
EndpointNew(id) == [domain |-> "shikorism.net", id |-> id]

\* format!("https://{}/api/webhooks/checkin/{}", self.domain, self.id)
TargetUrl(domain, id) == "https://" \o domain \o "/api/webhooks/checkin/" \o id

\* Serialize for Option<String> and Option<bool>: None is null
OptionStrToValue(opt) == IF opt = None THEN Null ELSE Str(opt[1])
OptionBoolToValue(opt) == IF opt = None THEN Null ELSE Bool(opt[1])

\* to_value(checkin) (derived Serialize)
ToValue(c) ==
    Obj([checked_in_at |-> Str(c.checked_in_at),
         note |-> OptionStrToValue(c.note),
         link |-> OptionStrToValue(c.link),
         tags |-> Arr([i \in 1..Len(c.tags) |-> Str(c.tags[i])]),
         is_private |-> OptionBoolToValue(c.is_private),
         is_too_sensitive |-> OptionBoolToValue(c.is_too_sensitive)])

\* the Checkins handed to send_checkin: values build() returns
SampleCheckins ==
    {[checked_in_at |-> "2020-12-31T15:00:00Z", note |-> None, link |-> None,
      tags |-> <<>>, is_private |-> None, is_too_sensitive |-> None],
     [checked_in_at |-> "2021-01-01T00:00:00+09:00", note |-> Some(<<"a">>),
      link |-> Some(<<"a", "U+3042">>), tags |-> <<>>,
      is_private |-> Some(TRUE), is_too_sensitive |-> Some(FALSE)]}

Endpoints ==
    {EndpointNew("abc"), EndpointWithDomain("example.org", "abc"),
     EndpointWithDomain("shikorism.net", "xyz")}

\* what the service may answer
StatusCodes == {0, 200, 400, 404, 422, 500}

StatusOptions ==
    {None, Some(Null), Some(Str("200")), Some(Float("200.5")), Some(Num(-1))}
    \cup {Some(Num(n)) : n \in StatusCodes}

ValidCheckin ==
    [id |-> Num(1), checked_in_at |-> Str("2021-01-01T00:00:00+09:00"),
     note |-> Str("n"), link |-> Str("l"), tags |-> Arr(<<>>),
     source |-> Str("api"), is_private |-> Bool(FALSE),
     is_too_sensitive |-> Bool(FALSE)]

ValidCheckinUtc ==
    [ValidCheckin EXCEPT !.id = Num(0),
                         !.checked_in_at = Str("2020-12-31T15:00:00Z"),
                         !.tags = Arr(<<Str("t"), Str("t")>>),
                         !.is_private = Bool(TRUE)]

\* a value of another type than field `name` takes
WrongValues(name) ==
    CASE name = "id" -> {Num(-1), Str("1"), Float("1.5")}
      [] name = "checked_in_at" -> {Str("yesterday"), Num(0)}
      [] name \in {"note", "link", "source"} -> {Null, Num(1)}
      [] name = "tags" -> {Null, Arr(<<Num(1)>>), Str("t")}
      [] name \in {"is_private", "is_too_sensitive"} -> {Null, Str("false")}

CheckinObjects ==
    {ValidCheckin, ValidCheckinUtc, ("extra" :> Null) @@ ValidCheckin}
    \cup {[k \in FieldNames \ {name} |-> ValidCheckin[k]] : name \in FieldNames}
    \cup UNION {{[ValidCheckin EXCEPT ![name] = w] : w \in WrongValues(name)} :
                   name \in FieldNames}

CheckinOptions ==
    {None, Some(Null), Some(Str("checkin")), Some(Obj(<<>>))}
    \cup {Some(Obj(o)) : o \in CheckinObjects}

ViolationElements == {Str("duplicate timestamp"), Str(""), Num(1), Null}

ViolationsOptions ==
    {None, Some(Null), Some(Str("duplicate timestamp")), Some(Obj(<<>>))}
    \cup UNION {{Some(Arr(a)) : a \in [1..n -> ViolationElements]} :
                   n \in 0..MaxViolations}

MessageOptions ==
    {None, Some(Null), Some(Num(404)), Some(Str("")), Some(Str("not found"))}

ErrorOptions ==
    {None, Some(Null), Some(Str("not found"))}
    \cup {Some(Obj(Field("violations", v) @@ Field("message", m))) :
             v \in ViolationsOptions, m \in MessageOptions}

Body(status, c, e) ==
    Obj(Field("status", status) @@ Field("checkin", c) @@ Field("error", e))

Bodies ==
    {Null, Arr(<<Num(200)>>), Str("ok")}
    \cup {Body(s, c, None) : s \in StatusOptions, c \in CheckinOptions}
    \cup {Body(s, None, e) : s \in StatusOptions, e \in ErrorOptions}
    \cup {Body(s, Some(Obj(ValidCheckin)),
               Some(Obj("violations" :> Arr(<<Str("duplicate timestamp")>>))))
             : s \in StatusOptions}

\* the failures of the requester: opaque to the endpoint
TransportErrors ==
    {[type |-> "requester", text |-> "connection refused"],
     [type |-> "requester", text |-> "body is not JSON"]}

Replies == {Err(e) : e \in TransportErrors} \cup {Ok(b) : b \in Bodies}

\* send_checkin up to its await: the URL, the body and the POST
SendCheckin ==
    /\ pc = "idle"
    /\ calls < MaxCalls
    /\ LET target_url == TargetUrl(endpoint[1].domain, endpoint[1].id)
       IN  requests' = Append(requests,
                              [method |-> "POST", url |-> target_url,
                               headers |-> <<>>, body |-> ToValue(checkin[1])])
    /\ calls' = calls + 1
    /\ pc' = "awaiting"
    /\ UNCHANGED <<builder, call, checkin, endpoint, reply, result>>

\* send_checkin, had it reported a failed post as a rejection by the service
SendCheckinResumeCollapsing(r) ==
    /\ pc = "awaiting"
    /\ reply' = Some(r)
    /\ result' = Some(IF r.kind = "Err"
                      THEN Ok(OtherError(r.error.text))
                      ELSE ParseResponse(r.value))
    /\ pc' = "done"
    /\ UNCHANGED <<builder, call, checkin, endpoint, calls, requests>>

\* send_checkin from its await on: the post resolves to r; `?` returns its
\* failure, parse_response classifies its value
SendCheckinResume(r) ==
    /\ pc = "awaiting"
    /\ reply' = Some(r)
    /\ result' = Some(IF r.kind = "Err" THEN r ELSE ParseResponse(r.value))
    /\ pc' = "done"
    /\ UNCHANGED <<builder, call, checkin, endpoint, calls, requests>>

\* the caller takes what send_checkin returned; a panic ends the thread
TakeResult ==
    /\ pc = "done"
    /\ result[1].kind # "Panic"
    /\ pc' = "idle"
    /\ reply' = None
    /\ result' = None
    /\ UNCHANGED <<builder, call, checkin, endpoint, calls, requests>>

InitEndpoint ==
    /\ builder = None
    /\ call = Idle
    /\ checkin \in {Some(c) : c \in SampleCheckins}
    /\ endpoint \in {Some(e) : e \in Endpoints}
    /\ EndpointIdle

NextEndpoint ==
    \/ SendCheckin
    \/ pc = "awaiting" /\ \E r \in Replies : SendCheckinResume(r)
    \/ TakeResult

SpecEndpoint == InitEndpoint /\ [][NextEndpoint]_vars

(***************************************************************************)
(* What the claims speak of, stated without the builder's own operators.   *)
(***************************************************************************)
\* the positions of s that hold no whitespace
Solid(s) == {i \in 1..Len(s) : ~IsWhitespace(s[i])}

Least(S) == CHOOSE i \in S : \A j \in S : i <= j
Greatest(S) == CHOOSE i \in S : \A j \in S : j <= i

\* s without its leading and trailing whitespace
Trimmed(s) ==
    IF Solid(s) = {} THEN <<>> ELSE SubSeq(s, Least(Solid(s)), Greatest(Solid(s)))

\* whitespace stands between two characters of s that are not whitespace
HasInteriorWhitespace(s) ==
    \E i, j, k \in 1..Len(s) :
        i < j /\ j < k /\ i \in Solid(s) /\ j \notin Solid(s) /\ k \in Solid(s)

NonEmpty(t) == t # <<>>

\* the entries trimmed, the empty ones dropped, in their order
TrimmedNonEmpty(ts) == SelectSeq([i \in 1..Len(ts) |-> Trimmed(ts[i])], NonEmpty)

AnyInteriorWhitespace(ts) == \E i \in 1..Len(ts) : HasInteriorWhitespace(ts[i])

\* a setter has just returned
Returned(op, ret) == builder # None /\ call.op = op /\ call.ret = ret

(***************************************************************************)
(* C1. For every tag collection whose entries, once trimmed, hold no       *)
(* interior whitespace, tags() returns Ok and the builder then stores the  *)
(* entries trimmed, the empty ones dropped, in their order.                *)
(***************************************************************************)
C1_TagsStored ==
    (builder # None /\ call.op = "tags" /\ ~AnyInteriorWhitespace(call.arg))
        => /\ call.ret = "Ok"
           /\ builder[1].tags = TrimmedNonEmpty(call.arg)

(***************************************************************************)
(* C2. tags() returns Err(HasWhitespaces) exactly for the collections with *)
(* an entry whose trimmed form has interior whitespace (an all-whitespace  *)
(* entry never causes it), and then the builder is what it was before the  *)
(* call.                                                                   *)
(***************************************************************************)
C2_TagsRejectsWhole ==
    [][(call.op = "none" /\ call'.op = "tags")
          => /\ call'.ret \in {"Ok", "Err(HasWhitespaces)"}
             /\ call'.ret = "Err(HasWhitespaces)"
                    <=> AnyInteriorWhitespace(call'.arg)
             /\ call'.ret = "Err(HasWhitespaces)" => builder' = builder]_vars

\* a collection was rejected whose offending entry follows a valid one
C2_Witness ==
    /\ Returned("tags", "Err(HasWhitespaces)")
    /\ Len(call.arg) > 1
    /\ Trimmed(call.arg[1]) # <<>>
    /\ ~HasInteriorWhitespace(call.arg[1])

\* a collection with an all-whitespace entry was accepted
C2_WitnessBlank ==
    /\ Returned("tags", "Ok")
    /\ \E i \in 1..Len(call.arg) : call.arg[i] # <<>> /\ Trimmed(call.arg[i]) = <<>>

Has(value, key) == value.t = "obj" /\ key \in DOMAIN value.v

\* send_checkin returned after the post resolved to a body
Classified == pc = "done" /\ reply[1].kind = "Ok"
TheBody == reply[1].value
TheResult == result[1]

\* the body's status is the non-negative integer n
StatusIs(n) ==
    /\ Has(TheBody, "status")
    /\ TheBody.v.status.t = "num"
    /\ TheBody.v.status.v = n

\* the body's status is some non-negative integer
HasNaturalStatus ==
    /\ Has(TheBody, "status")
    /\ TheBody.v.status.t = "num"
    /\ TheBody.v.status.v >= 0

HasError == Has(TheBody, "error")
HasViolationsArray ==
    /\ HasError
    /\ Has(TheBody.v.error, "violations")
    /\ TheBody.v.error.v.violations.t = "arr"
TheViolations == TheBody.v.error.v.violations.v
HasMessage == HasError /\ Has(TheBody.v.error, "message")
TheMessage == TheBody.v.error.v.message

AllStrings(a) == \A i \in 1..Len(a) : a[i].t = "str"

IsVariant(r, variant) == r.kind = "Ok" /\ r.value.variant = variant

(***************************************************************************)
(* C5. For a body of status 404 or 422 whose error.violations is an array, *)
(* the classifier returns ValidationError with one string for each element *)
(* of the array, in order, whatever the types of the elements.             *)
(***************************************************************************)
C5_ArrayIsValidationError ==
    (Classified /\ (StatusIs(404) \/ StatusIs(422)) /\ HasViolationsArray)
        => /\ IsVariant(TheResult, "ValidationError")
           /\ Len(TheResult.value.violations) = Len(TheViolations)
           /\ \A i \in 1..Len(TheViolations) :
                 TheViolations[i].t = "str"
                     => TheResult.value.violations[i] = TheViolations[i].v

(***************************************************************************)
(* C5, amended.  For such a body the classifier returns ValidationError    *)
(* with the elements in order when every element of the array is a string, *)
(* with or without error.message; when an element is not a string it       *)
(* fails with a decode error.  It never returns OtherError.                *)
(***************************************************************************)
C5_StringArrayIsValidationError ==
    (Classified /\ (StatusIs(404) \/ StatusIs(422)) /\ HasViolationsArray)
        => IF AllStrings(TheViolations)
           THEN /\ IsVariant(TheResult, "ValidationError")
                /\ TheResult.value.violations
                       = [i \in 1..Len(TheViolations) |-> TheViolations[i].v]
           ELSE /\ TheResult.kind = "Err"
                /\ TheResult.error.type = "serde_json::Error"

\* two violations were returned in their order, beside an error.message
C5_Witness ==
    /\ Classified /\ StatusIs(422) /\ HasViolationsArray /\ HasMessage
    /\ IsVariant(TheResult, "ValidationError")
    /\ TheResult.value.violations = <<"duplicate timestamp", "">>

(***************************************************************************)
(* C6. For a body of status 404 or 422 whose error.violations is no array  *)
(* (absent, or no error object at all), the classifier returns, as a       *)
(* normal value, OtherError(m): m is error.message when the body has that  *)
(* string and the empty string when it has none.                           *)
(***************************************************************************)
C6_OtherErrorCarriesMessage ==
    (Classified /\ (StatusIs(404) \/ StatusIs(422)) /\ ~HasViolationsArray)
        => /\ IsVariant(TheResult, "OtherError")
           /\ (HasMessage /\ TheMessage.t = "str")
                  => TheResult.value.message = TheMessage.v
           /\ ~HasMessage => TheResult.value.message = ""

\* a body with an empty error object was classified
C6_Witness ==
    /\ Classified /\ StatusIs(422) /\ HasError /\ ~HasMessage
    /\ ~Has(TheBody.v.error, "violations")
    /\ TheResult = Ok(OtherError(""))

\* a body with a message was classified
C6_WitnessMessage ==
    /\ Classified /\ StatusIs(404) /\ HasMessage
    /\ TheResult = Ok(OtherError("not found"))

(***************************************************************************)
(* C7. For a body of status 200 the classifier returns Success(r) exactly  *)
(* when the body's checkin is an object with every field of                *)
(* ReceivedCheckin present and of the right type, r holding their values;  *)
(* otherwise it fails with a decode error.                                 *)
(***************************************************************************)
Timestamps == {"2021-01-01T00:00:00+09:00", "2020-12-31T15:00:00Z"}

RightType(name, value) ==
    CASE name = "id" -> value.t = "num" /\ value.v >= 0
      [] name = "checked_in_at" -> value.t = "str" /\ value.v \in Timestamps
      [] name \in {"note", "link", "source"} -> value.t = "str"
      [] name = "tags" -> value.t = "arr" /\ AllStrings(value.v)
      [] name \in {"is_private", "is_too_sensitive"} -> value.t = "bool"

AllFields ==
    {"id", "checked_in_at", "note", "link", "tags", "source", "is_private",
     "is_too_sensitive"}

WellFormedCheckin ==
    /\ Has(TheBody, "checkin")
    /\ \A name \in AllFields :
           /\ Has(TheBody.v.checkin, name)
           /\ RightType(name, TheBody.v.checkin.v[name])

C7_SuccessIffDecodes ==
    (Classified /\ StatusIs(200))
        => IF WellFormedCheckin
           THEN LET c == TheBody.v.checkin.v
                    r == TheResult.value.checkin
                IN  /\ IsVariant(TheResult, "Success")
                    /\ \A name \in AllFields \ {"checked_in_at", "tags"} :
                           r[name] = c[name].v
                    /\ r.tags = [i \in 1..Len(c.tags.v) |-> c.tags.v[i].v]
                    /\ r.checked_in_at.instant = "2020-12-31T15:00:00"
           ELSE /\ TheResult.kind = "Err"
                /\ TheResult.error.type = "serde_json::Error"

\* a well-formed checkin was decoded
C7_Witness ==
    /\ Classified /\ StatusIs(200) /\ WellFormedCheckin
    /\ IsVariant(TheResult, "Success")
    /\ TheResult.value.checkin.tags = <<"t", "t">>

\* a checkin lacking a field was refused
C7_WitnessMissing ==
    /\ Classified /\ StatusIs(200) /\ Has(TheBody, "checkin")
    /\ TheBody.v.checkin.t = "obj"
    /\ DOMAIN TheBody.v.checkin.v = AllFields \ {"source"}
    /\ TheResult.kind = "Err"

(***************************************************************************)
(* C8. When the body has no status, or one that is not a non-negative      *)
(* integer, the classifier returns a failure: it does not panic and        *)
(* returns no CheckinResponse.                                             *)
(***************************************************************************)
C8_MissingStatusIsFailure ==
    (Classified /\ ~HasNaturalStatus) => TheResult.kind = "Err"

(***************************************************************************)
(* C9. For a body whose status is a number other than 200, 404 and 422,    *)
(* classification fails with a failure that carries the status and the     *)
(* body, whatever else the body holds.                                     *)
(***************************************************************************)
C9_UnexpectedStatus ==
    \A n \in StatusCodes \ {200, 404, 422} :
        (Classified /\ StatusIs(n))
            => /\ TheResult.kind = "Err"
               /\ TheResult.error.type = "String"
               /\ TheResult.error.text
                      = <<"Unknown status code: ", n, ", response: ", TheBody>>

\* a body of status 500 with a well-formed checkin was refused
C9_Witness ==
    /\ Classified /\ StatusIs(500) /\ WellFormedCheckin /\ HasViolationsArray
    /\ TheResult.kind = "Err"

\* a body of status 400 was refused
C9_WitnessClientError ==
    /\ Classified /\ StatusIs(400) /\ HasError
    /\ TheResult.kind = "Err"

(***************************************************************************)
(* C10. Each call of send_checkin asks the requester for exactly one POST, *)
(* of https://{domain}/api/webhooks/checkin/{id}, and for nothing else; a  *)
(* failed post is returned as it is, never as a CheckinResponse, and a     *)
(* rejection by the service is an Ok result.                               *)
(***************************************************************************)
C10_OnePostNoRetry ==
    /\ Len(requests) = calls
    /\ \A i \in 1..Len(requests) :
           /\ requests[i].method = "POST"
           /\ requests[i].url
                  = "https://" \o endpoint[1].domain \o "/api/webhooks/checkin/"
                        \o endpoint[1].id
    /\ pc = "awaiting" => result = None
    /\ pc = "done"
           => /\ reply[1].kind = "Err"
                     => TheResult.kind = "Err" /\ TheResult.error = reply[1].error
              /\ TheResult.kind = "Ok" => reply[1].kind = "Ok"
              /\ (Classified /\ (StatusIs(404) \/ StatusIs(422))
                    /\ (HasViolationsArray => AllStrings(TheViolations)))
                     => TheResult.kind = "Ok"

\* the second call's post failed and the failure was returned
C10_Witness ==
    /\ pc = "done" /\ calls = 2 /\ Len(requests) = 2
    /\ endpoint[1].domain = "example.org"
    /\ reply[1].kind = "Err"
    /\ TheResult.kind = "Err"

====
